---- MODULE Spec2Model ----
(***************************************************************************)
(* A model of the polarized-light conversion engine, class                 *)
(* StokesParameters (src/src/component/StokesParameters.py), and of the    *)
(* main window's background workers (src/src/gui/main_window.py).          *)
(*                                                                         *)
(* State of the engine: the two instance fields, data (the raw table) and  *)
(* stokes_results (the Stokes table), and call, a record of the last       *)
(* method call (its name, arguments, return value and what it tried and    *)
(* wrote).                                                                 *)
(*                                                                         *)
(* State of the main window: current_file_path, status_bar (the message    *)
(* it shows), workers, the DataProcessor threads created so far, all       *)
(* working on the window's one engine, and events, the finished signals    *)
(* queued for the main thread.  current_mode is the right panel's mode,    *)
(* plot_widget the fields of the PlotWidget with its animation, and        *)
(* imported_files the left panel's file list.                              *)
(*                                                                         *)
(* The labels the program shows in Chinese are written in English: the     *)
(* play button reads "play" and "pause", the modes are "data",             *)
(* "poincare", "animation", "S1", "S2" and "S3".                           *)
(*                                                                         *)
(* insts holds the fields of two further engines, and ops the calls made   *)
(* on each of them.                                                        *)
(*                                                                         *)
(* Numbers are fixed point: a float x is the integer x * Unit, and NaN is  *)
(* a value of its own.  A raw cell is a number or a string.                *)
(***************************************************************************)
EXTENDS Integers, Sequences, FiniteSets, TLC

VARIABLES data, stokes_results, call,
          current_file_path, status_bar, workers, events,
          current_mode, plot_widget, imported_files,
          insts, ops

vars == <<data, stokes_results, call, current_file_path, status_bar, workers, events,
          current_mode, plot_widget, imported_files, insts, ops>>

\* The fields of the main window and of its panels, and the two further
\* engines.
panels == <<current_mode, plot_widget, imported_files>>
window == <<current_file_path, status_bar, workers, events, panels>>
others == <<insts, ops>>
besides_plot == <<data, stokes_results, call, current_file_path, status_bar, workers,
                  events, current_mode, imported_files, others>>

\* ------------------------------------------------------------------ bounds
\* The longest raw table of the model, in rows.
MaxRows == 2
\* At most MaxOk of the candidate encodings read a file of the encoding
\* family successfully.
MaxOk == 2

\* ------------------------------------------------------------------ values
\* Python's None, as the value of data, stokes_results and of a return value.
None == [none |-> TRUE]

\* chardet reports no encoding (detected['encoding'] is None).
NoEncoding == "None"

\* pd.read_csv raised (UnicodeDecodeError or any other Exception).
Fail == [fail |-> TRUE]

\* A raw cell that parsed as a number, and one that is a string.
Num(v) == [num |-> TRUE, v |-> v]
Str == [num |-> FALSE, v |-> 0]

\* One unit of the fixed-point numbers: x is held as x * Unit.
Unit == 100 * 100

\* A finite float and NaN.
Fin(v) == [fin |-> TRUE, v |-> v]
NaN == [fin |-> FALSE, v |-> 0]

\* ------------------------------------------------------------ load_data
\* The candidate encodings, in the order load_data tries them.
encodings == <<"utf-8", "gbk", "utf-16le", "gb2312", "latin-1", "cp1252", "utf-8-sig">>

Encodings == {encodings[i] : i \in 1..Len(encodings)}

\* An encoding chardet can report that is none of the candidates.
OtherEncoding == "UTF-16"

\* confidence > 0.7, in hundredths.
ConfidenceThreshold == 70

\* The column names convert_to_stokes reads.
ColNo == "No"
ColIntensity == "Intensity [%]"
ColDop == "DOP [%]"
ColPer == "PER [dB]"
ColPhi == "φ [°]"

\* The header φ [°] as it reads when the file was decoded with an encoding
\* it was not written in.
ColPhiGarbled == "?? [??]"

\* The header layouts of the model's files.
LStd == <<ColNo, ColIntensity, ColDop, ColPer, ColPhi>>
LMoved == <<ColNo, ColPhi, ColIntensity, ColDop, ColPer>>
LUnnamed == <<ColNo, ColIntensity, ColDop, ColPer, "Azimuth">>
LShort == <<ColNo, ColIntensity, ColDop, ColPer>>
LNoDop == <<ColNo, ColIntensity, ColPer, "Time", ColPhi>>

Layouts == {LStd, LMoved, LUnnamed, LShort, LNoDop}

\* The sample rows of the model's files: the instrument's readings of one
\* sample.  RowBad holds text where the intensity should be.
Row1 == [No |-> Num(1), I |-> Num(100), DOP |-> Num(100), AZ |-> Num(45), PER |-> Num(30)]
Row2 == [No |-> Num(2), I |-> Num(50), DOP |-> Num(50), AZ |-> Num(0), PER |-> Num(10)]
RowBad == [No |-> Num(3), I |-> Str, DOP |-> Num(80), AZ |-> Num(90), PER |-> Num(20)]

GoodRows == {Row1, Row2}
Rows == GoodRows \cup {RowBad}

SeqsUpTo(S, n) == UNION {[1..k -> S] : k \in 0..n}

\* The cell of sample r under the header named c.
CellOf(r, c) ==
  CASE c = ColNo -> r.No
    [] c = ColIntensity -> r.I
    [] c = ColDop -> r.DOP
    [] c = ColPer -> r.PER
    [] c \in {ColPhi, ColPhiGarbled, "Azimuth"} -> r.AZ
    [] OTHER -> Num(7)

\* The samples of the files whose header is not the standard one.
FewSamples == {<<>>, <<Row1>>, <<Row2, Row1>>}

\* The body of a file: its header layout and its samples, in file order.
Contents ==
  {[layout |-> LStd, samples |-> s] : s \in SeqsUpTo(Rows, MaxRows)}
  \cup {[layout |-> l, samples |-> s] : l \in Layouts \ {LStd}, s \in FewSamples}

PlainContent == [layout |-> LStd, samples |-> <<Row1>>]

\* A file, as load_data meets it: its body; ok, the encodings pd.read_csv
\* reads it with without raising; written, the encoding that decodes its
\* header as written; readable, whether open(file_path, 'rb') succeeds;
\* chardet, whether the chardet library is installed; det and conf, what
\* chardet.detect reports for its bytes (conf in hundredths).
File(c, ok, w, rd, ch, det, conf) ==
  [content |-> c, ok |-> ok, written |-> w, readable |-> rd,
   chardet |-> ch, det |-> det, conf |-> conf]

\* Files every candidate reads: the first candidate decodes them.
ContentFiles ==
  {File(c, Encodings, "utf-8", TRUE, TRUE, "utf-8", 99) : c \in Contents}

\* Files only some candidates read (at most MaxOk of them): files written
\* in GBK.
EncodingFiles ==
  {File(PlainContent, ok, "gbk", TRUE, TRUE, OtherEncoding, 99) :
     ok \in {s \in SUBSET Encodings : s # {} /\ Cardinality(s) <= MaxOk}}

\* Files no candidate reads: they reach the detection step.  Their bytes
\* cannot be opened, or chardet is not installed, or chardet reports no
\* encoding, or it reports OtherEncoding with confidence conf, and the file
\* reads with OtherEncoding or with none.
UndecodedFiles ==
  {File(PlainContent, {}, OtherEncoding, FALSE, TRUE, OtherEncoding, 99),
   File(PlainContent, {OtherEncoding}, OtherEncoding, TRUE, FALSE, OtherEncoding, 99),
   File(PlainContent, {OtherEncoding}, OtherEncoding, TRUE, TRUE, NoEncoding, 0),
   File(PlainContent, {OtherEncoding}, OtherEncoding, TRUE, TRUE, NoEncoding, 99)}
  \cup {File(PlainContent, ok, OtherEncoding, TRUE, TRUE, OtherEncoding, conf) :
          ok \in {{}, {OtherEncoding}}, conf \in {50, 70, 71, 99}}

Files == ContentFiles \cup EncodingFiles \cup UndecodedFiles

\* The table pd.read_csv(file_path, sep='\t', skiprows=2, encoding=e)
\* returns, or Fail when it raises.
ReadCsv(f, e) ==
  IF e \notin f.ok THEN Fail
  ELSE LET cols == [j \in 1..Len(f.content.layout) |->
                      IF f.content.layout[j] = ColPhi /\ e # f.written
                      THEN ColPhiGarbled ELSE f.content.layout[j]]
       IN [cols |-> cols,
           rows |-> [i \in 1..Len(f.content.samples) |->
                       [j \in 1..Len(cols) |-> CellOf(f.content.samples[i], cols[j])]]]

\* A variant of TryEncodings whose loop has no early return, so that the last
\* candidate that reads the file wins.
RECURSIVE TryEncodings_LastWins(_, _, _)
TryEncodings_LastWins(f, i, log) ==
  IF i > Len(encodings) THEN [found |-> FALSE, table |-> None, log |-> log]
  ELSE LET r == ReadCsv(f, encodings[i])
           rest == TryEncodings_LastWins(f, i + 1, Append(log, encodings[i]))
       IN IF rest.found \/ r = Fail THEN rest
          ELSE [found |-> TRUE, table |-> r, log |-> rest.log]

\* The for loop of load_data from candidate i on: log is what was tried so
\* far; the first candidate that reads the file ends the loop.
RECURSIVE TryEncodings(_, _, _)
TryEncodings(f, i, log) ==
  IF i > Len(encodings) THEN [found |-> FALSE, table |-> None, log |-> log]
  ELSE LET r == ReadCsv(f, encodings[i])
       IN IF r # Fail
          THEN [found |-> TRUE, table |-> r, log |-> Append(log, encodings[i])]
          ELSE TryEncodings(f, i + 1, Append(log, encodings[i]))

\* A variant of Detect that accepts a confidence of exactly the threshold.
Detect_AtThreshold(f, log) ==
  IF ~f.readable THEN [found |-> FALSE, table |-> None, log |-> Append(log, "open failed")]
  ELSE IF ~f.chardet THEN [found |-> FALSE, table |-> None, log |-> Append(log, "read bytes")]
  ELSE IF f.det # NoEncoding /\ f.conf >= ConfidenceThreshold
       THEN LET r == ReadCsv(f, f.det)
                l == log \o <<"read bytes", "detect", "retry">>
            IN IF r # Fail THEN [found |-> TRUE, table |-> r, log |-> l]
               ELSE [found |-> FALSE, table |-> None, log |-> l]
       ELSE [found |-> FALSE, table |-> None, log |-> log \o <<"read bytes", "detect">>]

\* The detection step of load_data, reached when the loop found nothing.
Detect(f, log) ==
  IF ~f.readable THEN [found |-> FALSE, table |-> None, log |-> Append(log, "open failed")]
  ELSE IF ~f.chardet THEN [found |-> FALSE, table |-> None, log |-> Append(log, "read bytes")]
  ELSE IF f.det # NoEncoding /\ f.conf > ConfidenceThreshold
       THEN LET r == ReadCsv(f, f.det)
                l == log \o <<"read bytes", "detect", "retry">>
            IN IF r # Fail THEN [found |-> TRUE, table |-> r, log |-> l]
               ELSE [found |-> FALSE, table |-> None, log |-> l]
       ELSE [found |-> FALSE, table |-> None, log |-> log \o <<"read bytes", "detect">>]

\* A variant of LoadResult that detects first and tries the candidates after.
LoadResult_DetectFirst(f) ==
  LET d == Detect(f, <<>>)
  IN IF d.found THEN d ELSE TryEncodings(f, 1, d.log)

\* load_data(file_path): the candidates in order, then detection.
LoadResult(f) ==
  LET t == TryEncodings(f, 1, <<>>)
  IN IF t.found THEN t ELSE Detect(f, t.log)

\* The record of a call: op, the method; file and include, its arguments;
\* ret, its return value; raised, whether it raised; log, what it tried;
\* written, what it wrote to its output file.
Call(op, file, include, ret, raised, log, written) ==
  [op |-> op, file |-> file, include |-> include, ret |-> ret, raised |-> raised,
   log |-> log, written |-> written]

\* A variant of load_data that clears the raw table before it reads.
load_data_Clearing(f) ==
  LET r == LoadResult(f)
  IN /\ data' = IF r.found THEN r.table ELSE None
     /\ UNCHANGED stokes_results
     /\ call' = Call("load_data", f, FALSE, r.found, FALSE, r.log, None)

load_data(f) ==
  \E r \in {LoadResult(f)} :
     /\ data' = IF r.found THEN r.table ELSE data
     /\ UNCHANGED stokes_results
     /\ call' = Call("load_data", f, FALSE, r.found, FALSE, r.log, None)

\* ------------------------------------------------------------ numpy
\* sin of 0..90 degrees, times Unit.
SinTable ==
  <<0, 175, 349, 523, 698, 872, 1045, 1219, 1392, 1564, 1736, 1908, 2079, 2250,
    2419, 2588, 2756, 2924, 3090, 3256, 3420, 3584, 3746, 3907, 4067, 4226, 4384,
    4540, 4695, 4848, 5000, 5150, 5299, 5446, 5592, 5736, 5878, 6018, 6157, 6293,
    6428, 6561, 6691, 6820, 6947, 7071, 7193, 7314, 7431, 7547, 7660, 7771, 7880,
    7986, 8090, 8192, 8290, 8387, 8480, 8572, 8660, 8746, 8829, 8910, 8988, 9063,
    9135, 9205, 9272, 9336, 9397, 9455, 9511, 9563, 9613, 9659, 9703, 9744, 9781,
    9816, 9848, 9877, 9903, 9925, 9945, 9962, 9976, 9986, 9994, 9998, 10000>>

\* np.sin and np.cos of an angle of d whole degrees.
SinDeg(d) ==
  LET m == d % 360
  IN IF m <= 90 THEN SinTable[m + 1]
     ELSE IF m <= 180 THEN SinTable[180 - m + 1]
     ELSE IF m <= 270 THEN 0 - SinTable[m - 180 + 1]
     ELSE 0 - SinTable[360 - m + 1]

CosDeg(d) == SinDeg(d + 90)

\* The integer square root, by bisection on lo..hi.
RECURSIVE Bisect(_, _, _)
Bisect(n, lo, hi) ==
  IF lo >= hi THEN lo
  ELSE LET mid == (lo + hi + 1) \div 2
       IN IF mid * mid <= n THEN Bisect(n, mid, hi) ELSE Bisect(n, lo, mid - 1)

ISqrt(n) == Bisect(n, 0, 3 * Unit)

\* Float arithmetic: a non-finite operand gives NaN.
Mul(a, b) ==
  IF a.fin /\ b.fin THEN Fin((a.v * b.v + Unit \div 2) \div Unit) ELSE NaN

\* a / b with b >= 0; x / 0 is not finite.
Div(a, b) ==
  IF a.fin /\ b.fin /\ b.v > 0 THEN Fin((a.v * Unit + b.v \div 2) \div b.v) ELSE NaN

\* np.sqrt(x**2 + y**2 + z**2)
Norm3(x, y, z) ==
  IF x.fin /\ y.fin /\ z.fin THEN Fin(ISqrt(x.v * x.v + y.v * y.v + z.v * z.v)) ELSE NaN

\* cos(2 * ellipticity_angle) and sin(2 * ellipticity_angle), where
\* ellipticity_angle = 0.5 * arctan(2 / sqrt(10**(per_db / 10) - 1)):
\* below 0 dB the square root is of a negative number, NaN.
Cos2Ellipticity(per) ==
  CASE per < 0 -> NaN
    [] per = 0 -> Fin(0)
    [] per = 10 -> Fin(8321)
    [] per = 20 -> Fin(9804)
    [] per = 30 -> Fin(9980)

Sin2Ellipticity(per) ==
  CASE per < 0 -> NaN
    [] per = 0 -> Fin(Unit)
    [] per = 10 -> Fin(5547)
    [] per = 20 -> Fin(1971)
    [] per = 30 -> Fin(632)

\* ---------------------------------------------------- convert_to_stokes
\* self.data[name]: the position of the column named name, 0 for KeyError.
ColIndex(t, name) ==
  IF \E j \in 1..Len(t.cols) : t.cols[j] = name
  THEN CHOOSE j \in 1..Len(t.cols) :
         t.cols[j] = name /\ \A k \in 1..(j - 1) : t.cols[k] # name
  ELSE 0

\* A variant of AzimuthIndex that always takes the 5th column.
AzimuthIndex_AlwaysFifth(t) == IF Len(t.cols) >= 5 THEN 5 ELSE 0

\* The azimuth column: the one named φ [°], else the 5th (iloc[:, 4]),
\* 0 when there is neither (IndexError).
AzimuthIndex(t) ==
  IF ColIndex(t, ColPhi) # 0 THEN ColIndex(t, ColPhi)
  ELSE IF Len(t.cols) >= 5 THEN 5 ELSE 0

\* A variant of Values that yields the column in reverse row order.
Values_Reversed(t, j) == [i \in 1..Len(t.rows) |-> t.rows[Len(t.rows) + 1 - i][j]]

\* Column j of t, in row order (.values).
Values(t, j) == [i \in 1..Len(t.rows) |-> t.rows[i][j]]

\* Arithmetic on the array raises TypeError when a cell is a string.
IsNumeric(col) == \A i \in 1..Len(col) : col[i].num

\* A variant of ConvertRaises in which numpy raises on an invalid value or a
\* division by zero (np.seterr(all='raise')) instead of yielding NaN.
ConvertRaises_OnDegenerate(t) ==
  \/ ColIndex(t, ColIntensity) = 0
  \/ ColIndex(t, ColDop) = 0
  \/ AzimuthIndex(t) = 0
  \/ ColIndex(t, ColPer) = 0
  \/ ColIndex(t, ColNo) = 0
  \/ ~IsNumeric(Values(t, ColIndex(t, ColIntensity)))
  \/ ~IsNumeric(Values(t, ColIndex(t, ColDop)))
  \/ ~IsNumeric(Values(t, AzimuthIndex(t)))
  \/ ~IsNumeric(Values(t, ColIndex(t, ColPer)))
  \/ \E i \in 1..Len(t.rows) :
        \/ t.rows[i][ColIndex(t, ColPer)].v < 0
        \/ t.rows[i][ColIndex(t, ColIntensity)].v = 0

\* Whether the try block of convert_to_stokes raises on table t.
ConvertRaises(t) ==
  \/ ColIndex(t, ColIntensity) = 0
  \/ ColIndex(t, ColDop) = 0
  \/ AzimuthIndex(t) = 0
  \/ ColIndex(t, ColPer) = 0
  \/ ColIndex(t, ColNo) = 0
  \/ ~IsNumeric(Values(t, ColIndex(t, ColIntensity)))
  \/ ~IsNumeric(Values(t, ColIndex(t, ColDop)))
  \/ ~IsNumeric(Values(t, AzimuthIndex(t)))
  \/ ~IsNumeric(Values(t, ColIndex(t, ColPer)))

\* A variant of StokesTable whose S0 is the polarized part of the intensity,
\* intensity * dop.
StokesTable_S0Polarized(t) ==
  LET n == Len(t.rows)
      No == Values(t, ColIndex(t, ColNo))
      raw_intensity == Values(t, ColIndex(t, ColIntensity))
      raw_dop == Values(t, ColIndex(t, ColDop))
      azimuth_deg == Values(t, AzimuthIndex(t))
      per_db == Values(t, ColIndex(t, ColPer))
      intensity == [i \in 1..n |-> Fin(raw_intensity[i].v * (Unit \div 100))]
      dop == [i \in 1..n |-> Fin(raw_dop[i].v * (Unit \div 100))]
      cos2az == [i \in 1..n |-> Fin(CosDeg(2 * azimuth_deg[i].v))]
      sin2az == [i \in 1..n |-> Fin(SinDeg(2 * azimuth_deg[i].v))]
      cos2el == [i \in 1..n |-> Cos2Ellipticity(per_db[i].v)]
      sin2el == [i \in 1..n |-> Sin2Ellipticity(per_db[i].v)]
      S0 == [i \in 1..n |-> Mul(intensity[i], dop[i])]
      S1 == [i \in 1..n |-> Mul(Mul(Mul(intensity[i], dop[i]), cos2az[i]), cos2el[i])]
      S2 == [i \in 1..n |-> Mul(Mul(Mul(intensity[i], dop[i]), sin2az[i]), cos2el[i])]
      S3 == [i \in 1..n |-> Mul(Mul(intensity[i], dop[i]), sin2el[i])]
  IN [rows |-> [i \in 1..n |->
        [No |-> No[i], S0 |-> S0[i], S1 |-> S1[i], S2 |-> S2[i], S3 |-> S3[i],
         DOP_calculated |-> Div(Norm3(S1[i], S2[i], S3[i]), S0[i]),
         Azimuth_original |-> azimuth_deg[i],
         PER_original |-> per_db[i],
         Intensity_original |-> raw_intensity[i]]]]

\* A variant of StokesTable whose S1 and S2 lack the factor
\* cos(2 * ellipticity_angle).
StokesTable_NoEllipticityFactor(t) ==
  LET n == Len(t.rows)
      No == Values(t, ColIndex(t, ColNo))
      raw_intensity == Values(t, ColIndex(t, ColIntensity))
      raw_dop == Values(t, ColIndex(t, ColDop))
      azimuth_deg == Values(t, AzimuthIndex(t))
      per_db == Values(t, ColIndex(t, ColPer))
      intensity == [i \in 1..n |-> Fin(raw_intensity[i].v * (Unit \div 100))]
      dop == [i \in 1..n |-> Fin(raw_dop[i].v * (Unit \div 100))]
      cos2az == [i \in 1..n |-> Fin(CosDeg(2 * azimuth_deg[i].v))]
      sin2az == [i \in 1..n |-> Fin(SinDeg(2 * azimuth_deg[i].v))]
      sin2el == [i \in 1..n |-> Sin2Ellipticity(per_db[i].v)]
      S0 == intensity
      S1 == [i \in 1..n |-> Mul(Mul(intensity[i], dop[i]), cos2az[i])]
      S2 == [i \in 1..n |-> Mul(Mul(intensity[i], dop[i]), sin2az[i])]
      S3 == [i \in 1..n |-> Mul(Mul(intensity[i], dop[i]), sin2el[i])]
  IN [rows |-> [i \in 1..n |->
        [No |-> No[i], S0 |-> S0[i], S1 |-> S1[i], S2 |-> S2[i], S3 |-> S3[i],
         DOP_calculated |-> Div(Norm3(S1[i], S2[i], S3[i]), S0[i]),
         Azimuth_original |-> azimuth_deg[i],
         PER_original |-> per_db[i],
         Intensity_original |-> raw_intensity[i]]]]

\* The arrays of convert_to_stokes and the data frame built from them.
StokesTable(t) ==
  LET n == Len(t.rows)
      No == Values(t, ColIndex(t, ColNo))
      raw_intensity == Values(t, ColIndex(t, ColIntensity))
      raw_dop == Values(t, ColIndex(t, ColDop))
      azimuth_deg == Values(t, AzimuthIndex(t))
      per_db == Values(t, ColIndex(t, ColPer))
      intensity == [i \in 1..n |-> Fin(raw_intensity[i].v * (Unit \div 100))]
      dop == [i \in 1..n |-> Fin(raw_dop[i].v * (Unit \div 100))]
      cos2az == [i \in 1..n |-> Fin(CosDeg(2 * azimuth_deg[i].v))]
      sin2az == [i \in 1..n |-> Fin(SinDeg(2 * azimuth_deg[i].v))]
      cos2el == [i \in 1..n |-> Cos2Ellipticity(per_db[i].v)]
      sin2el == [i \in 1..n |-> Sin2Ellipticity(per_db[i].v)]
      S0 == intensity
      S1 == [i \in 1..n |-> Mul(Mul(Mul(intensity[i], dop[i]), cos2az[i]), cos2el[i])]
      S2 == [i \in 1..n |-> Mul(Mul(Mul(intensity[i], dop[i]), sin2az[i]), cos2el[i])]
      S3 == [i \in 1..n |-> Mul(Mul(intensity[i], dop[i]), sin2el[i])]
  IN [rows |-> [i \in 1..n |->
        [No |-> No[i], S0 |-> S0[i], S1 |-> S1[i], S2 |-> S2[i], S3 |-> S3[i],
         DOP_calculated |-> Div(Norm3(S1[i], S2[i], S3[i]), S0[i]),
         Azimuth_original |-> azimuth_deg[i],
         PER_original |-> per_db[i],
         Intensity_original |-> raw_intensity[i]]]]

\* Table t without the rows that hold text.
NumericRows(t) ==
  [cols |-> t.cols,
   rows |-> SelectSeq(t.rows, LAMBDA r : \A j \in 1..Len(r) : r[j].num)]

\* A variant of ConvertResult that converts the rows it can and skips the
\* others.
ConvertResult_BestEffort(d) ==
  IF d = None THEN [ret |-> None, log |-> <<"no data">>]
  ELSE IF ConvertRaises(NumericRows(d)) THEN [ret |-> None, log |-> <<"failed">>]
  ELSE [ret |-> StokesTable(NumericRows(d)), log |-> <<"done">>]

\* A variant of ConvertResult that takes a missing raw table for an empty one.
ConvertResult_EmptyForNone(d) ==
  IF d = None THEN [ret |-> [rows |-> <<>>], log |-> <<"done">>]
  ELSE IF ConvertRaises(d) THEN [ret |-> None, log |-> <<"failed">>]
  ELSE [ret |-> StokesTable(d), log |-> <<"done">>]

\* What convert_to_stokes returns on raw table d, and what it prints last.
ConvertResult(d) ==
  IF d = None THEN [ret |-> None, log |-> <<"no data">>]
  ELSE IF ConvertRaises(d) THEN [ret |-> None, log |-> <<"failed">>]
  ELSE [ret |-> StokesTable(d), log |-> <<"done">>]

\* A variant of convert_to_stokes that discards the raw table it converted.
convert_to_stokes_Discarding ==
  LET r == ConvertResult(data)
  IN /\ stokes_results' = IF r.ret = None THEN stokes_results ELSE r.ret
     /\ data' = IF r.ret = None THEN data ELSE None
     /\ call' = Call("convert_to_stokes", None, FALSE, r.ret, FALSE, r.log, None)

convert_to_stokes ==
  \E r \in {ConvertResult(data)} :
     /\ stokes_results' = IF r.ret = None THEN stokes_results ELSE r.ret
     /\ UNCHANGED data
     /\ call' = Call("convert_to_stokes", None, FALSE, r.ret, FALSE, r.log, None)

\* ------------------------------------------ get_polarization_properties
\* np.sin of an angle a of 0..90 degrees, a in Unit-ths of a degree.
SinFx(a) ==
  LET d == a \div Unit
      f == a % Unit
  IN IF d >= 90 THEN Unit
     ELSE SinTable[d + 1] + ((SinTable[d + 2] - SinTable[d + 1]) * f) \div Unit

\* np.rad2deg(np.arcsin(x)) for 0 <= x <= Unit, in Unit-ths of a degree.
AsinFx(x) ==
  IF x >= Unit THEN 90 * Unit
  ELSE LET d == CHOOSE k \in 0..89 : SinTable[k + 1] <= x /\ x < SinTable[k + 2]
       IN d * Unit + ((x - SinTable[d + 1]) * Unit) \div (SinTable[d + 2] - SinTable[d + 1])

Abs(x) == IF x < 0 THEN 0 - x ELSE x

\* np.rad2deg(np.arcsin(x)): NaN outside [-1, 1].
AsinDeg(x) ==
  IF ~x.fin \/ Abs(x.v) > Unit THEN NaN
  ELSE IF x.v < 0 THEN Fin(0 - AsinFx(0 - x.v)) ELSE Fin(AsinFx(x.v))

\* A variant of Atan2Deg that takes np.arctan(y / x), which keeps no
\* quadrant.
Atan2Deg_NoQuadrant(y, x) ==
  IF ~x.fin \/ ~y.fin THEN NaN
  ELSE LET r == ISqrt(x.v * x.v + y.v * y.v)
           ax == Abs(x.v)
           ay == Abs(y.v)
           small == IF ay <= ax THEN ay ELSE ax
           a == IF r = 0 THEN 0 ELSE AsinFx((small * Unit) \div r)
           base == IF ay <= ax THEN a ELSE 90 * Unit - a
       IN IF r = 0 THEN Fin(0)
          ELSE IF (x.v >= 0) = (y.v >= 0) THEN Fin(base)
          ELSE Fin(0 - base)

\* np.rad2deg(np.arctan2(y, x))
Atan2Deg(y, x) ==
  IF ~x.fin \/ ~y.fin THEN NaN
  ELSE LET r == ISqrt(x.v * x.v + y.v * y.v)
           ax == Abs(x.v)
           ay == Abs(y.v)
           small == IF ay <= ax THEN ay ELSE ax
           a == IF r = 0 THEN 0 ELSE AsinFx((small * Unit) \div r)
           base == IF ay <= ax THEN a ELSE 90 * Unit - a
       IN IF r = 0 THEN Fin(0)
          ELSE IF x.v >= 0 /\ y.v >= 0 THEN Fin(base)
          ELSE IF x.v < 0 /\ y.v >= 0 THEN Fin(180 * Unit - base)
          ELSE IF x.v < 0 THEN Fin(base - 180 * Unit)
          ELSE Fin(0 - base)

\* 0.5 * angle
Half(a) == IF a.fin THEN Fin(a.v \div 2) ELSE NaN

\* np.tan(np.deg2rad(a)) for an angle of -45..45 degrees.
TanDeg(a) ==
  IF ~a.fin THEN NaN
  ELSE LET t == (SinFx(Abs(a.v)) * Unit) \div SinFx(90 * Unit - Abs(a.v))
       IN IF a.v < 0 THEN Fin(0 - t) ELSE Fin(t)

\* x * 100
Percent(x) == IF x.fin THEN Fin(x.v * 100) ELSE NaN

\* The data frame get_polarization_properties builds from Stokes table s.
PropertyTable(s) ==
  LET n == Len(s.rows)
      S0 == [i \in 1..n |-> s.rows[i].S0]
      S1 == [i \in 1..n |-> s.rows[i].S1]
      S2 == [i \in 1..n |-> s.rows[i].S2]
      S3 == [i \in 1..n |-> s.rows[i].S3]
      dop_calc == [i \in 1..n |-> Div(Norm3(S1[i], S2[i], S3[i]), S0[i])]
      azimuth_calc == [i \in 1..n |-> Half(Atan2Deg(S2[i], S1[i]))]
      ellipticity_calc ==
        [i \in 1..n |-> Half(AsinDeg(Div(S3[i], Mul(S0[i], dop_calc[i]))))]
  IN [rows |-> [i \in 1..n |->
        [No |-> s.rows[i].No,
         DOP |-> Percent(dop_calc[i]),
         Azimuth_calculated |-> azimuth_calc[i],
         Ellipticity_angle |-> ellipticity_calc[i],
         Ellipticity_ratio |-> TanDeg(ellipticity_calc[i]),
         Linear_DOP |-> Percent(Div(Norm3(S1[i], S2[i], Fin(0)), S0[i])),
         Circular_DOP |-> Percent(Div(Norm3(S3[i], Fin(0), Fin(0)), S0[i]))]]]

\* A variant of PropertiesResult that takes a missing Stokes table for an
\* empty one.
PropertiesResult_EmptyForNone(s) == IF s = None THEN [rows |-> <<>>] ELSE PropertyTable(s)

\* What get_polarization_properties returns when the Stokes table is s.
PropertiesResult(s) == IF s = None THEN None ELSE PropertyTable(s)

\* A variant of get_polarization_properties that hands the Stokes table
\* over: the instance holds none after the call.
get_polarization_properties_Consuming ==
  /\ UNCHANGED data
  /\ stokes_results' = None
  /\ call' = Call("get_polarization_properties", None, FALSE,
                  PropertiesResult(stokes_results), FALSE, <<>>, None)

get_polarization_properties ==
  /\ UNCHANGED <<data, stokes_results>>
  /\ call' = Call("get_polarization_properties", None, FALSE,
                  PropertiesResult(stokes_results), FALSE, <<>>, None)

\* ---------------------------------------------------------- save_results
RECURSIVE Flatten(_)
Flatten(ss) == IF ss = <<>> THEN <<>> ELSE Head(ss) \o Flatten(Tail(ss))

RECURSIVE SelectIndices(_, _, _)
SelectIndices(rows, no, j) ==
  IF j > Len(rows) THEN <<>>
  ELSE (IF rows[j].No = no THEN <<j>> ELSE <<>>) \o SelectIndices(rows, no, j + 1)

\* save_data.merge(properties, on='No', how='left'): every Stokes row, in
\* order, once with each property row of the same No.
Merge(s, p) ==
  Flatten([i \in 1..Len(s.rows) |->
     LET m == SelectIndices(p.rows, s.rows[i].No, 1)
     IN IF m = <<>> THEN <<[s |-> s.rows[i], p |-> None]>>
        ELSE [k \in 1..Len(m) |-> [s |-> s.rows[i], p |-> p.rows[m[k]]]]])

\* The rows save_results writes for Stokes table s.
SaveData(s, include) ==
  IF include /\ PropertiesResult(s) # None
  THEN [properties |-> TRUE, rows |-> Merge(s, PropertiesResult(s))]
  ELSE [properties |-> FALSE,
        rows |-> [i \in 1..Len(s.rows) |-> [s |-> s.rows[i], p |-> None]]]

\* The columns of the Stokes table and of the property table after No.
StokesColumns ==
  <<"No", "S0", "S1", "S2", "S3", "DOP_calculated", "Azimuth_original [°]",
    "PER_original [dB]", "Intensity_original [%]">>

PropertyColumns ==
  <<"DOP [%]", "Azimuth_calculated [°]", "Ellipticity_angle [°]", "Ellipticity_ratio",
    "Linear_DOP [%]", "Circular_DOP [%]">>

\* The cells of a Stokes record, and of a property record after No: a
\* Stokes row the left join found no property row for holds NaN there.
StokesCells(r) ==
  <<r.No, r.S0, r.S1, r.S2, r.S3, r.DOP_calculated, r.Azimuth_original,
    r.PER_original, r.Intensity_original>>

PropertyCells(p) ==
  IF p = None THEN [j \in 1..Len(PropertyColumns) |-> NaN]
  ELSE <<p.DOP, p.Azimuth_calculated, p.Ellipticity_angle, p.Ellipticity_ratio,
         p.Linear_DOP, p.Circular_DOP>>

\* The text to_csv writes for a cell: a float as the digits that read back
\* as the same float, NaN as the empty field, a raw cell as it is.
FormatCell(x) ==
  IF "fin" \in DOMAIN x
  THEN (IF x.fin THEN [text |-> "float", v |-> x.v] ELSE [text |-> "", v |-> 0])
  ELSE (IF x.num THEN [text |-> "number", v |-> x.v] ELSE [text |-> "string", v |-> 0])

\* A variant of to_csv that writes the index too (index=True, the default
\* of DataFrame.to_csv).
to_csv_WithIndex(save_data) ==
  [bom |-> TRUE,
   header |-> <<"">> \o StokesColumns
              \o (IF save_data.properties THEN PropertyColumns ELSE <<>>),
   lines |-> [i \in 1..Len(save_data.rows) |->
                LET cells == StokesCells(save_data.rows[i].s)
                             \o (IF save_data.properties
                                 THEN PropertyCells(save_data.rows[i].p) ELSE <<>>)
                IN <<[text |-> "number", v |-> i - 1]>>
                   \o [j \in 1..Len(cells) |-> FormatCell(cells[j])]]]

\* save_data.to_csv(output_file, index=False, encoding='utf-8-sig'): a
\* byte-order mark, the header line, and one line for each row.
to_csv(save_data) ==
  [bom |-> TRUE,
   header |-> StokesColumns \o (IF save_data.properties THEN PropertyColumns ELSE <<>>),
   lines |-> [i \in 1..Len(save_data.rows) |->
                LET cells == StokesCells(save_data.rows[i].s)
                             \o (IF save_data.properties
                                 THEN PropertyCells(save_data.rows[i].p) ELSE <<>>)
                IN [j \in 1..Len(cells) |-> FormatCell(cells[j])]]]

\* A variant of save_results that has no guard: without a Stokes table it
\* writes a file of no columns and no rows.
save_results_Unguarded(writable, include) ==
  /\ UNCHANGED <<data, stokes_results>>
  /\ call' = Call("save_results", [writable |-> writable], include, writable, FALSE,
                  IF writable THEN <<"saved">> ELSE <<"save failed">>,
                  IF ~writable THEN None
                  ELSE IF stokes_results = None
                       THEN [bom |-> TRUE, header |-> <<>>, lines |-> <<>>]
                       ELSE to_csv(SaveData(stokes_results, include)))

\* save_results(output_file, include_properties); writable is whether
\* to_csv can write output_file.
save_results(writable, include) ==
  LET ok == stokes_results # None /\ writable
  IN /\ UNCHANGED <<data, stokes_results>>
     /\ call' = Call("save_results", [writable |-> writable], include, ok, FALSE,
                     IF stokes_results = None THEN <<"nothing to save">>
                     ELSE IF writable THEN <<"saved">> ELSE <<"save failed">>,
                     IF ok THEN to_csv(SaveData(stokes_results, include)) ELSE None)

\* --------------------------------------------------------- print_summary
\* np.abs(original_dop - calculated_dop), the shorter array broadcast when
\* it has one element; <<>> stands for an empty result.
DopDiff(d, s) ==
  LET original_dop == Values(d, ColIndex(d, ColDop))
      n == Len(original_dop)
      m == Len(s.rows)
      len == IF n = 0 \/ m = 0 THEN 0 ELSE IF n >= m THEN n ELSE m
  IN [i \in 1..len |->
        LET o == Fin(original_dop[IF n = 1 THEN 1 ELSE i].v * (Unit \div 100))
            c == s.rows[IF m = 1 THEN 1 ELSE i].DOP_calculated
        IN IF c.fin THEN Fin(Abs(o.v - c.v)) ELSE NaN]

\* Whether print_summary raises: np.min and np.max of an empty array,
\* a missing or non-numeric DOP [%] column, arrays that do not broadcast.
SummaryRaises(d, s) ==
  \/ Len(s.rows) = 0
  \/ ColIndex(d, ColDop) = 0
  \/ ~IsNumeric(Values(d, ColIndex(d, ColDop)))
  \/ (Len(d.rows) # Len(s.rows) /\ Len(d.rows) # 1 /\ Len(s.rows) # 1)
  \/ Len(d.rows) = 0

print_summary ==
  LET raises == stokes_results # None /\ SummaryRaises(data, stokes_results)
  IN /\ UNCHANGED <<data, stokes_results>>
     /\ call' = Call("print_summary", None, FALSE, None, raises,
                     IF stokes_results = None THEN <<"no results">>
                     ELSE IF raises THEN <<"raised">> ELSE <<"summary">>,
                     IF stokes_results = None \/ raises THEN None
                     ELSE [dop_diff |-> DopDiff(data, stokes_results)])

\* ------------------------------------------------------------- PlotWidget
\* The display modes of the right panel.
Modes == {"data", "poincare", "animation", "S1", "S2", "S3"}

\* PlotWidget.__init__ and create_animation_controls.  has_animation_data is
\* whether the attribute animation_theta exists and frames its length;
\* animation is None or the FuncAnimation self.animation refers to: next,
\* the frame its timer delivers next, frames, the length of its frame
\* sequence, and event_source, "running", "stopped" or "None"; orphans are
\* the running animations self.animation no longer refers to.  last is the
\* handler that ran last, raised whether a slot raised in it.
PlotWidgetInit ==
  [current_data |-> None, current_mode |-> "data",
   has_animation_data |-> FALSE, frames |-> 0,
   animation |-> None, orphans |-> {},
   animation_index |-> 0, slider |-> [value |-> 0, maximum |-> 99],
   play_button |-> "play", enabled |-> FALSE,
   last |-> "__init__", raised |-> FALSE]

\* The value a QSlider of range 0..max takes for v.
Clamp(v, max) == IF v > max THEN max ELSE IF v < 0 THEN 0 ELSE v

\* on_progress_changed(value), the slot of the slider's valueChanged:
\* self.animation.event_source.stop() raises when event_source is None.
on_progress_changed(pw, value) ==
  IF pw.animation # None /\ pw.play_button = "pause"
  THEN IF pw.animation.event_source = "None" THEN [pw EXCEPT !.raised = TRUE]
       ELSE [pw EXCEPT !.animation.event_source = "stopped",
                       !.play_button = "play",
                       !.animation_index = value]
  ELSE [pw EXCEPT !.animation_index = value]

\* progress_slider.setValue(v) and setRange(0, max) with signals unblocked:
\* valueChanged is emitted when the value changes.
SetValue(pw, v) ==
  LET c == Clamp(v, pw.slider.maximum)
  IN IF c = pw.slider.value THEN pw
     ELSE on_progress_changed([pw EXCEPT !.slider.value = c], c)

SetRange(pw, max) ==
  LET c == Clamp(pw.slider.value, max)
      p1 == [pw EXCEPT !.slider.maximum = max]
  IN IF c = pw.slider.value THEN p1
     ELSE on_progress_changed([p1 EXCEPT !.slider.value = c], c)

enable_animation_controls(pw) == [pw EXCEPT !.enabled = TRUE]

disable_animation_controls(pw) == [pw EXCEPT !.enabled = FALSE]

setup_animation_controls(pw, total_frames) ==
  SetValue(SetRange(enable_animation_controls([pw EXCEPT !.animation_index = 0]),
                    total_frames - 1), 0)

\* plot_animation_mode(data, animation_settings).  self.animation = None
\* drops a running animation without stopping it: its timer runs on until
\* the object is collected (collected: at once).
plot_animation_mode(pw, d, collected) ==
  IF d = None \/ Len(d.rows) = 0 THEN pw
  ELSE LET p1 == setup_animation_controls(
                   [pw EXCEPT !.has_animation_data = TRUE, !.frames = Len(d.rows)],
                   Len(d.rows))
           dropped == IF p1.animation # None /\ p1.animation.event_source = "running"
                         /\ ~collected
                      THEN {[next |-> p1.animation.next, frames |-> p1.animation.frames]}
                      ELSE {}
       IN [p1 EXCEPT !.animation = None,
                     !.orphans = @ \cup dropped,
                     !.animation_index = 0]

\* PlotWidget.update_plot(mode, data, animation_settings)
PlotWidget_update_plot(pw, mode, d, collected) ==
  LET p1 == [pw EXCEPT !.current_data = d, !.current_mode = mode,
                       !.last = "update_plot", !.raised = FALSE]
  IN IF mode = "animation" THEN plot_animation_mode(p1, d, collected)
     ELSE disable_animation_controls(p1)

clear_plot(pw) ==
  disable_animation_controls([pw EXCEPT !.last = "clear_plot", !.raised = FALSE])

\* start_animation(): stops the animation self.animation refers to and
\* creates a new one; canvas.draw() draws its frame 0.
start_animation(pw) ==
  IF ~pw.has_animation_data THEN pw
  ELSE IF pw.animation # None /\ pw.animation.event_source = "None"
       THEN [pw EXCEPT !.raised = TRUE]
  ELSE [pw EXCEPT !.animation = [next |-> 0, frames |-> pw.frames,
                                 event_source |-> "running"],
                  !.animation_index = 0,
                  !.slider.value = 0]

\* toggle_animation(), the slot of the play button.
toggle_animation(pw) ==
  LET p0 == [pw EXCEPT !.last = "toggle_animation", !.raised = FALSE]
  IN IF p0.play_button = "play"
     THEN IF ~p0.has_animation_data THEN p0
          ELSE LET p1 == IF p0.animation_index >= p0.frames
                         THEN SetValue([p0 EXCEPT !.animation_index = 0], 0)
                         ELSE p0
                   p2 == start_animation(p1)
               IN IF p2.raised THEN p2 ELSE [p2 EXCEPT !.play_button = "pause"]
     ELSE IF p0.animation # None /\ p0.animation.event_source = "None"
          THEN [p0 EXCEPT !.raised = TRUE]
          ELSE [p0 EXCEPT !.animation = IF @ = None THEN None
                                        ELSE [@ EXCEPT !.event_source = "stopped"],
                          !.play_button = "play"]

\* reset_animation(), the slot of the reset button.
reset_animation(pw) ==
  LET p0 == [pw EXCEPT !.last = "reset_animation", !.raised = FALSE]
  IN IF p0.animation # None /\ p0.animation.event_source = "None"
     THEN [p0 EXCEPT !.raised = TRUE]
     ELSE [SetValue([p0 EXCEPT !.animation = None, !.animation_index = 0], 0)
             EXCEPT !.play_button = "play"]

\* The user moves the slider to value.
slider_moved(pw, value) ==
  on_progress_changed([pw EXCEPT !.slider.value = value,
                                 !.last = "on_progress_changed", !.raised = FALSE],
                      value)

\* One timeout of the timer of self.animation (FuncAnimation, frames =
\* len(theta), repeat = False): it calls animate(frame) for the next frame
\* of range(frames); when the frames are exhausted the animation stops its
\* timer without calling animate, and, depending on the version of the
\* library, sets its event_source to None (none).
animation_step(pw, none) ==
  LET a == pw.animation
      p0 == [pw EXCEPT !.last = "animate", !.raised = FALSE]
  IN IF a.next < a.frames
     THEN [p0 EXCEPT !.animation_index = a.next,
                     !.slider.value = Clamp(a.next, pw.slider.maximum),
                     !.animation.next = a.next + 1]
     ELSE [p0 EXCEPT !.animation.event_source = IF none THEN "None" ELSE "stopped"]

\* One timeout of the timer of a dropped animation o, or its collection.
orphan_step(pw, o, collected) ==
  LET p0 == [pw EXCEPT !.last = "animate", !.raised = FALSE]
  IN IF collected \/ o.next >= o.frames
     THEN [p0 EXCEPT !.orphans = @ \ {o}]
     ELSE [p0 EXCEPT !.animation_index = o.next,
                     !.slider.value = Clamp(o.next, pw.slider.maximum),
                     !.orphans = (@ \ {o}) \cup {[o EXCEPT !.next = o.next + 1]}]

\* ----------------------------------------------------------- DataProcessor
\* The longest sequence of file selections of the model: the window creates
\* one DataProcessor for each.
MaxWorkers == 2

\* A path that names no file (os.path.exists is False).
NoFile == [missing |-> TRUE]

\* The files the user selects: one and two good samples, a sample holding
\* text, and a file that cannot be read.
WindowFiles ==
  {File(PlainContent, Encodings, "utf-8", TRUE, TRUE, "utf-8", 99),
   File([layout |-> LStd, samples |-> <<Row2, Row1>>], Encodings, "utf-8", TRUE, TRUE, "utf-8", 99),
   File([layout |-> LStd, samples |-> <<RowBad>>], Encodings, "utf-8", TRUE, TRUE, "utf-8", 99),
   File(PlainContent, {}, OtherEncoding, FALSE, TRUE, OtherEncoding, 99)}

\* The signals of a DataProcessor.
progress(value) == [signal |-> "progress", value |-> value]
finished(success, message) == [signal |-> "finished", success |-> success, message |-> message]

\* DataProcessor(file_path, stokes_converter) on the window's engine: pc is
\* where its run() stands, emitted the signals it has emitted, trace the
\* calls it has made with what they returned (for convert_to_stokes:
\* whether it returned a table).
DataProcessor(file_path) ==
  [file_path |-> file_path, pc |-> "run", emitted |-> <<>>, trace |-> <<>>]

Returned(name, ret) == [call |-> name, ret |-> ret]

\* The finished signal of worker w, queued for the main thread.
Queued(w, success, message) == [worker |-> w, success |-> success, message |-> message]

\* run(), up to the return of load_data: success is what it returned.
run_load(w) ==
  /\ workers[w].pc = "run"
  /\ load_data(workers[w].file_path)
  /\ LET success == call'.ret
     IN workers' = [workers EXCEPT
                      ![w].pc = IF success THEN "loaded" ELSE "load failed",
                      ![w].emitted = Append(@, progress(25)),
                      ![w].trace = Append(@, Returned("load_data", success))]
  /\ UNCHANGED <<current_file_path, status_bar, events, panels, others>>

\* _is_encoding_error(): True when the file cannot be opened or its first
\* bytes hold a byte-order mark (bom).
is_encoding_error(f, bom) == ~f.readable \/ bom

\* A variant of run_load_failed in which the classifier resets the engine.
run_load_failed_Resetting(w) ==
  /\ workers[w].pc = "load failed"
  /\ \E bom \in BOOLEAN :
       LET encoding == is_encoding_error(workers[w].file_path, bom)
           message == IF encoding THEN "encoding problem" ELSE "load failed"
       IN /\ workers' = [workers EXCEPT
                           ![w].pc = "done",
                           ![w].emitted = Append(@, finished(FALSE, message)),
                           ![w].trace = Append(@, Returned("_is_encoding_error", encoding))]
          /\ events' = Append(events, Queued(w, FALSE, message))
  /\ data' = None
  /\ stokes_results' = None
  /\ UNCHANGED <<call, current_file_path, status_bar, panels, others>>

\* run(), after load_data returned False.
run_load_failed(w) ==
  /\ workers[w].pc = "load failed"
  /\ \E bom \in BOOLEAN :
       LET encoding == is_encoding_error(workers[w].file_path, bom)
           message == IF encoding THEN "encoding problem" ELSE "load failed"
       IN /\ workers' = [workers EXCEPT
                           ![w].pc = "done",
                           ![w].emitted = Append(@, finished(FALSE, message)),
                           ![w].trace = Append(@, Returned("_is_encoding_error", encoding))]
          /\ events' = Append(events, Queued(w, FALSE, message))
  /\ UNCHANGED <<data, stokes_results, call, current_file_path, status_bar, panels, others>>

\* A variant of run_convert that returns without a signal when the
\* conversion fails.
run_convert_Silent(w) ==
  /\ workers[w].pc = "loaded"
  /\ convert_to_stokes
  /\ LET results == call'.ret
     IN IF results = None
        THEN /\ workers' = [workers EXCEPT
                              ![w].pc = "done",
                              ![w].emitted = Append(@, progress(50)),
                              ![w].trace = Append(@, Returned("convert_to_stokes", FALSE))]
             /\ UNCHANGED events
        ELSE /\ workers' = [workers EXCEPT
                              ![w].pc = "done",
                              ![w].emitted = @ \o <<progress(50), progress(100),
                                                    finished(TRUE, Len(results.rows))>>,
                              ![w].trace = Append(@, Returned("convert_to_stokes", TRUE))]
             /\ events' = Append(events, Queued(w, TRUE, Len(results.rows)))
  /\ UNCHANGED <<current_file_path, status_bar, panels, others>>

\* run(), after load_data returned True: results is what convert_to_stokes
\* returned, and the message of finished(True, ..) is its number of rows.
run_convert(w) ==
  /\ workers[w].pc = "loaded"
  /\ convert_to_stokes
  /\ LET results == call'.ret
     IN IF results = None
        THEN /\ workers' = [workers EXCEPT
                              ![w].pc = "done",
                              ![w].emitted = @ \o <<progress(50),
                                                    finished(FALSE, "convert failed")>>,
                              ![w].trace = Append(@, Returned("convert_to_stokes", FALSE))]
             /\ events' = Append(events, Queued(w, FALSE, "convert failed"))
        ELSE /\ workers' = [workers EXCEPT
                              ![w].pc = "done",
                              ![w].emitted = @ \o <<progress(50), progress(100),
                                                    finished(TRUE, Len(results.rows))>>,
                              ![w].trace = Append(@, Returned("convert_to_stokes", TRUE))]
             /\ events' = Append(events, Queued(w, TRUE, Len(results.rows)))
  /\ UNCHANGED <<current_file_path, status_bar, panels, others>>

\* ------------------------------------------------------------- MainWindow
process_data_file(file_path) ==
  /\ status_bar' = "processing"
  /\ workers' = Append(workers, DataProcessor(file_path))

on_file_selected(file_path) ==
  IF file_path = NoFile
  THEN /\ status_bar' = "no such file"
       /\ UNCHANGED <<data, stokes_results, call, current_file_path, workers, events,
                      panels, others>>
  ELSE /\ Len(workers) < MaxWorkers
       /\ current_file_path' = file_path
       /\ process_data_file(file_path)
       /\ UNCHANGED <<data, stokes_results, call, events, panels, others>>

\* update_plot(mode): shown is the message the status bar shows when it is
\* called.
update_plot(mode, shown) ==
  IF stokes_results = None
  THEN /\ plot_widget' = clear_plot(plot_widget)
       /\ status_bar' = shown
  ELSE /\ \E collected \in BOOLEAN :
            plot_widget' = PlotWidget_update_plot(plot_widget, mode, stokes_results,
                                                  collected)
       /\ status_bar' = "mode"

\* on_data_processed(success, message), the slot of the finished signals,
\* run by the main thread in the order the signals were emitted.
on_data_processed ==
  /\ events # <<>>
  /\ events' = Tail(events)
  /\ IF Head(events).success
     THEN update_plot(current_mode, "processed")
     ELSE /\ status_bar' = "processing failed"
          /\ UNCHANGED plot_widget
  /\ UNCHANGED <<data, stokes_results, call, current_file_path, workers,
                 current_mode, imported_files, others>>

\* RightPanel.on_mode_changed(mode) and the slot MainWindow.on_mode_changed
\* of the signal it emits.
on_mode_changed(mode) ==
  /\ current_mode' = mode
  /\ update_plot(mode, status_bar)
  /\ UNCHANGED <<data, stokes_results, call, current_file_path, workers, events,
                 imported_files, others>>

\* export_stokes_data(): chosen is whether the user chose a file in the
\* dialog, writable whether that file can be written.
export_stokes_data(chosen, writable) ==
  /\ stokes_results # None
  /\ chosen
  /\ save_results(writable, TRUE)
  /\ status_bar' = IF call'.ret = TRUE THEN "saved" ELSE status_bar
  /\ UNCHANGED <<current_file_path, workers, events, panels, others>>

\* -------------------------------------------------------------- LeftPanel
\* The longest list of paths of one dialog or one drop, and the longest
\* file list of the model.
MaxUrls == 2
MaxFiles == 4

\* The paths the user names: two data files, a picture, and a data file
\* that does not exist.
Paths ==
  {[name |-> "a", ext |-> ".csv", exists |-> TRUE],
   [name |-> "b", ext |-> ".txt", exists |-> TRUE],
   [name |-> "c", ext |-> ".png", exists |-> TRUE],
   [name |-> "d", ext |-> ".dat", exists |-> FALSE]}

In(path, list) == \E k \in 1..Len(list) : list[k] = path

\* The loop of import_files: each path is tested against the list it is
\* appended to.
RECURSIVE AppendNew(_, _)
AppendNew(list, file_paths) ==
  IF file_paths = <<>> THEN list
  ELSE AppendNew(IF In(Head(file_paths), list) THEN list
                 ELSE Append(list, Head(file_paths)),
                 Tail(file_paths))

\* import_files(): file_paths is what the dialog returns.  The signal
\* files_imported runs MainWindow.on_files_imported.
import_files(file_paths) ==
  /\ Len(imported_files) + Len(file_paths) <= MaxFiles
  /\ imported_files' = AppendNew(imported_files, file_paths)
  /\ status_bar' = IF imported_files' # imported_files THEN "imported" ELSE status_bar
  /\ UNCHANGED <<data, stokes_results, call, current_file_path, workers, events,
                 current_mode, plot_widget, others>>

\* clear_files(): reply is the answer to the question it asks.
clear_files(reply) ==
  /\ imported_files # <<>>
  /\ imported_files' = IF reply THEN <<>> ELSE imported_files
  /\ UNCHANGED <<data, stokes_results, call, current_file_path, status_bar, workers,
                 events, current_mode, plot_widget, others>>

\* list.remove(path): the list without the first path.
RECURSIVE Remove(_, _)
Remove(list, path) ==
  IF list = <<>> THEN <<>>
  ELSE IF Head(list) = path THEN Tail(list)
  ELSE <<Head(list)>> \o Remove(Tail(list), path)

remove_file(file_path) ==
  /\ imported_files' = IF In(file_path, imported_files)
                       THEN Remove(imported_files, file_path) ELSE imported_files
  /\ UNCHANGED <<data, stokes_results, call, current_file_path, status_bar, workers,
                 events, current_mode, plot_widget, others>>

get_imported_files == imported_files

IsDataFile(path) == path.ext \in {".txt", ".csv", ".dat"}

\* MainWindow.dropEvent(event): urls are the local files of the drop.  Each
\* valid file is tested against the copy of the list taken before the loop
\* and appended to the list itself.
dropEvent(urls) ==
  /\ Len(imported_files) + Len(urls) <= MaxFiles
  /\ LET valid_files == SelectSeq(urls, LAMBDA u : IsDataFile(u) /\ u.exists)
         copy == get_imported_files
         new_files == SelectSeq(valid_files, LAMBDA u : ~In(u, copy))
     IN /\ imported_files' = imported_files \o new_files
        /\ status_bar' =
             IF valid_files # <<>>
             THEN IF new_files # <<>>
                  THEN IF Len(valid_files) > Len(new_files)
                       THEN "imported, some in list" ELSE "imported"
                  ELSE "all in list"
             ELSE IF Len(urls) > 0 THEN status_bar ELSE "no data files"
  /\ UNCHANGED <<data, stokes_results, call, current_file_path, workers, events,
                 current_mode, plot_widget, others>>

\* ---------------------------------------------------------- two engines
\* The most calls made on one of the two engines.
MaxOps == 2

Instances == {"A", "B"}

\* StokesParameters(): the fields of a new engine.
StokesParameters == [data |-> None, stokes_results |-> None]

\* A variant of load_data_on in which the raw table is an attribute of the
\* class, shared by its instances.
load_data_on_Shared(k, f) ==
  /\ Len(ops[k]) < MaxOps
  /\ LET r == LoadResult(f)
     IN insts' = [j \in Instances |->
                    [insts[j] EXCEPT !.data = IF r.found THEN r.table ELSE @]]
  /\ ops' = [ops EXCEPT ![k] = Append(@, [op |-> "load_data", file |-> f])]
  /\ UNCHANGED <<data, stokes_results, call, window>>

\* load_data, convert_to_stokes and save_results called on engine k.
load_data_on(k, f) ==
  /\ Len(ops[k]) < MaxOps
  /\ LET r == LoadResult(f)
     IN insts' = [insts EXCEPT ![k].data = IF r.found THEN r.table ELSE @]
  /\ ops' = [ops EXCEPT ![k] = Append(@, [op |-> "load_data", file |-> f])]
  /\ UNCHANGED <<data, stokes_results, call, window>>

convert_to_stokes_on(k) ==
  /\ Len(ops[k]) < MaxOps
  /\ LET r == ConvertResult(insts[k].data)
     IN insts' = [insts EXCEPT ![k].stokes_results = IF r.ret = None THEN @ ELSE r.ret]
  /\ ops' = [ops EXCEPT ![k] = Append(@, [op |-> "convert_to_stokes", file |-> None])]
  /\ UNCHANGED <<data, stokes_results, call, window>>

save_results_on(k) ==
  /\ Len(ops[k]) < MaxOps
  /\ UNCHANGED insts
  /\ ops' = [ops EXCEPT ![k] = Append(@, [op |-> "save_results", file |-> None])]
  /\ UNCHANGED <<data, stokes_results, call, window>>

\* ------------------------------------------------------- specifications
Init ==
  /\ data = None
  /\ stokes_results = None
  /\ call = [op |-> "__init__", file |-> None, include |-> FALSE, ret |-> None,
             raised |-> FALSE, log |-> <<>>, written |-> None]
  /\ current_file_path = None
  /\ status_bar = "ready"
  /\ workers = <<>>
  /\ events = <<>>
  /\ current_mode = "data"
  /\ plot_widget = PlotWidgetInit
  /\ imported_files = <<>>
  /\ insts = [k \in Instances |-> StokesParameters]
  /\ ops = [k \in Instances |-> <<>>]

\* One engine, called in any order on any file.
Next ==
  \/ \E f \in Files : load_data(f) /\ UNCHANGED <<window, others>>
  \/ convert_to_stokes /\ UNCHANGED <<window, others>>
  \/ get_polarization_properties /\ UNCHANGED <<window, others>>
  \/ \E writable \in BOOLEAN, include \in BOOLEAN :
       save_results(writable, include) /\ UNCHANGED <<window, others>>
  \/ print_summary /\ UNCHANGED <<window, others>>

Spec == Init /\ [][Next]_vars

\* The samples of the test script's data file: one sample of any intensity,
\* degree of polarization, azimuth and extinction ratio, among good samples.
SampleRows ==
  {[No |-> Num(9), I |-> Num(i), DOP |-> Num(d), AZ |-> Num(a), PER |-> Num(p)] :
     i \in {0, 50, 100}, d \in {50, 80, 100, 120}, a \in {-60, 45, 135},
     p \in {-10, 10, 30}}

SampleFiles ==
  {File([layout |-> LStd, samples |-> s], Encodings, "utf-8", TRUE, TRUE, "utf-8", 99) :
     s \in {<<r>> \o t : r \in SampleRows, t \in SeqsUpTo(GoodRows, MaxRows - 1)}
           \cup {t \o <<r>> : r \in SampleRows, t \in SeqsUpTo(GoodRows, MaxRows - 1)}}

\* The test script: a new engine loads one data file, then converts,
\* summarises, computes the properties and saves.
NextTest ==
  \/ data = None /\ \E f \in SampleFiles : load_data(f) /\ UNCHANGED <<window, others>>
  \/ convert_to_stokes /\ UNCHANGED <<window, others>>
  \/ print_summary /\ UNCHANGED <<window, others>>
  \/ get_polarization_properties /\ UNCHANGED <<window, others>>
  \/ \E writable \in BOOLEAN, include \in BOOLEAN :
       save_results(writable, include) /\ UNCHANGED <<window, others>>

SpecTest == Init /\ [][NextTest]_vars

\* The main window: file selections, and the steps of the workers they start.
NextWindow ==
  \/ \E file_path \in WindowFiles \cup {NoFile} : on_file_selected(file_path)
  \/ \E w \in 1..Len(workers) : run_load(w)
  \/ \E w \in 1..Len(workers) : run_load_failed(w)
  \/ \E w \in 1..Len(workers) : run_convert(w)
  \/ on_data_processed

SpecWindow == Init /\ [][NextWindow]_vars

\* The workers are threads: one that can take a step takes it.
SpecWindowFair ==
  SpecWindow /\ \A w \in 1..MaxWorkers :
                  WF_vars(/\ w <= Len(workers)
                          /\ run_load(w) \/ run_load_failed(w) \/ run_convert(w))

\* The user selects a file, changes the mode or exports only while no
\* worker is running and no signal waits for the main thread.
Idle == events = <<>> /\ \A w \in 1..Len(workers) : workers[w].pc = "done"

NextSerial ==
  \/ Idle /\ \E file_path \in WindowFiles \cup {NoFile} : on_file_selected(file_path)
  \/ \E w \in 1..Len(workers) : run_load(w)
  \/ \E w \in 1..Len(workers) : run_load_failed(w)
  \/ \E w \in 1..Len(workers) : run_convert(w)
  \/ on_data_processed
  \/ Idle /\ \E mode \in Modes : on_mode_changed(mode)
  \/ Idle /\ \E chosen \in BOOLEAN, writable \in BOOLEAN :
                export_stokes_data(chosen, writable)

SpecSerial == Init /\ [][NextSerial]_vars

\* The tables the plot widget is given: none, one and two rows.
PlotData ==
  {ConvertResult(LoadResult(f).table).ret :
     f \in {File([layout |-> LStd, samples |-> t], Encodings, "utf-8", TRUE, TRUE,
                  "utf-8", 99) : t \in {<<>>, <<Row1>>, <<Row2, Row1>>}}}

\* The plot widget: updates of the plot, the buttons and the slider of the
\* animation controls while they are enabled, and the timers.
NextPlot ==
  \/ /\ \E mode \in Modes, d \in PlotData, collected \in BOOLEAN :
          plot_widget' = PlotWidget_update_plot(plot_widget, mode, d, collected)
     /\ UNCHANGED besides_plot
  \/ /\ plot_widget.enabled
     /\ plot_widget' = toggle_animation(plot_widget)
     /\ UNCHANGED besides_plot
  \/ /\ plot_widget.enabled
     /\ plot_widget' = reset_animation(plot_widget)
     /\ UNCHANGED besides_plot
  \/ /\ plot_widget.enabled
     /\ \E value \in 0..plot_widget.slider.maximum :
          /\ value # plot_widget.slider.value
          /\ plot_widget' = slider_moved(plot_widget, value)
     /\ UNCHANGED besides_plot
  \/ /\ plot_widget.animation # None
     /\ plot_widget.animation.event_source = "running"
     /\ \E none \in BOOLEAN : plot_widget' = animation_step(plot_widget, none)
     /\ UNCHANGED besides_plot
  \/ /\ \E o \in plot_widget.orphans, collected \in BOOLEAN :
          plot_widget' = orphan_step(plot_widget, o, collected)
     /\ UNCHANGED besides_plot

SpecPlot == Init /\ [][NextPlot]_vars

\* The file list: imports, drops, clearing and removal.
NextFiles ==
  \/ \E file_paths \in SeqsUpTo(Paths, MaxUrls) : import_files(file_paths)
  \/ \E urls \in SeqsUpTo(Paths, MaxUrls) : dropEvent(urls)
  \/ \E reply \in BOOLEAN : clear_files(reply)
  \/ \E file_path \in Paths : remove_file(file_path)

SpecFiles == Init /\ [][NextFiles]_vars

\* Two engines, their calls interleaved.
NextTwo ==
  \E k \in Instances :
     \/ \E f \in WindowFiles : load_data_on(k, f)
     \/ convert_to_stokes_on(k)
     \/ save_results_on(k)

SpecTwo == Init /\ [][NextTwo]_vars

\* ================================================================ claims
HasColumn(t, name) == \E j \in 1..Len(t.cols) : t.cols[j] = name

\* The events of load_data's detection step.
DetectionEvents == {"open failed", "read bytes", "detect", "retry"}

InLog(ev) == \E k \in 1..Len(call.log) : call.log[k] = ev

\* No candidate encoding reads file f.
NoCandidateReads(f) == \A e \in Encodings : ReadCsv(f, e) = Fail

\* C1: whenever the instance holds a raw table and a Stokes table, the Stokes
\* table is the one computed from that raw table; after a load of a new file
\* no Stokes table of the previous file is still held.
C1_StokesOfHeldRaw ==
  (data # None /\ stokes_results # None) =>
    (~ConvertRaises(data) /\ stokes_results = StokesTable(data))

\* C2: load_data tries utf-8, gbk, utf-16le, gb2312, latin-1, cp1252,
\* utf-8-sig in that order and returns True at the first that reads the file:
\* the raw table is the one parsed with it and no later candidate is tried.
C2_FirstCandidateWins ==
  LET order == <<"utf-8", "gbk", "utf-16le", "gb2312", "latin-1", "cp1252", "utf-8-sig">>
  IN (call.op = "load_data" /\ ~NoCandidateReads(call.file)) =>
       \E k \in 1..7 :
         /\ ReadCsv(call.file, order[k]) # Fail
         /\ \A j \in 1..(k - 1) : ReadCsv(call.file, order[j]) = Fail
         /\ call.ret = TRUE
         /\ data = ReadCsv(call.file, order[k])
         /\ call.log = SubSeq(order, 1, k)

\* C2's case: a load that succeeded at a candidate after the first, on a file
\* a later candidate reads too, to a different table.
C2_Witness ==
  /\ call.op = "load_data"
  /\ call.ret = TRUE
  /\ Len(call.log) >= 2
  /\ \E e \in Encodings :
       /\ ~InLog(e)
       /\ ReadCsv(call.file, e) # Fail
       /\ ReadCsv(call.file, e) # data

\* C3: the detection step is reached only after all seven candidates failed;
\* a file that fails under utf-8 and parses under gbk is loaded with gbk and
\* its bytes are never read for detection.
C3_DetectionLast ==
  call.op = "load_data" =>
    /\ (\E ev \in DetectionEvents : InLog(ev)) =>
         /\ NoCandidateReads(call.file)
         /\ Len(call.log) > 7
         /\ \A e \in Encodings : InLog(e)
         /\ \A k \in 1..7 : call.log[k] \notin DetectionEvents
    /\ (ReadCsv(call.file, "utf-8") = Fail /\ ReadCsv(call.file, "gbk") # Fail) =>
         /\ call.ret = TRUE
         /\ data = ReadCsv(call.file, "gbk")
         /\ \A ev \in DetectionEvents : ~InLog(ev)

\* C3's case: a GBK file, which utf-8 fails on, has been loaded.
C3_Witness ==
  /\ call.op = "load_data"
  /\ ReadCsv(call.file, "utf-8") = Fail
  /\ ReadCsv(call.file, "gbk") # Fail
  /\ call.file.written = "gbk"
  /\ call.ret = TRUE

\* C4: the detected encoding is retried only when one was reported with
\* confidence above 0.7; at or below 0.7, or with none reported, there is no
\* retry and load_data returns False.
C4_RetryAboveThreshold ==
  call.op = "load_data" =>
    /\ InLog("retry") => (call.file.det # NoEncoding /\ call.file.conf > 70)
    /\ (InLog("detect") /\ (call.file.det = NoEncoding \/ call.file.conf <= 70)) =>
         (~InLog("retry") /\ call.ret = FALSE)
    /\ (InLog("detect") /\ call.file.det # NoEncoding /\ call.file.conf > 70) =>
         InLog("retry")

\* C4's case: chardet reported an encoding with confidence exactly 0.7, which
\* reads the file, and load_data returned False.
C4_Witness ==
  /\ call.op = "load_data"
  /\ InLog("detect")
  /\ call.file.det # NoEncoding
  /\ call.file.conf = 70
  /\ ReadCsv(call.file, call.file.det) # Fail
  /\ call.ret = FALSE

\* Every way the detection step ends without a table for file f.
DetectionFails(f) ==
  \/ ~f.readable
  \/ ~f.chardet
  \/ f.det = NoEncoding
  \/ f.conf <= 70
  \/ ReadCsv(f, f.det) = Fail

\* C5: a load_data that fails returns False and leaves the raw table and the
\* Stokes table exactly as they were.
C5_FailedLoadKeepsState ==
  [][(call'.op = "load_data" /\ (call'.ret = FALSE
        \/ (NoCandidateReads(call'.file) /\ DetectionFails(call'.file))))
       => (call'.ret = FALSE /\ data' = data /\ stokes_results' = stokes_results)]_vars

\* C5's case: a load failed on an instance that held a raw and a Stokes table.
C5_Witness ==
  /\ call.op = "load_data"
  /\ call.ret = FALSE
  /\ data # None
  /\ stokes_results # None

\* The columns convert_to_stokes needs are in table t.
RequiredColumnsPresent(t) ==
  /\ \A c \in {"No", "Intensity [%]", "DOP [%]", "PER [dB]"} : HasColumn(t, c)
  /\ (HasColumn(t, ColPhi) \/ Len(t.cols) >= 5)

\* C6: load_data fails, installing nothing, on every file whose parsed table
\* lacks a required column.
C6_MissingColumnRejected ==
  (call.op = "load_data" /\ call.ret = TRUE) => RequiredColumnsPresent(data)

\* C7: convert_to_stokes on an instance without a raw table returns None and
\* leaves the Stokes table unchanged.
C7_NoDataNoResult ==
  [][(call'.op = "convert_to_stokes" /\ data = None)
       => (call'.ret = None /\ stokes_results' = stokes_results)]_vars

\* C7's case: convert_to_stokes has run on an instance without a raw table.
C7_Witness ==
  /\ call.op = "convert_to_stokes"
  /\ data = None
  /\ call.log = <<"no data">>

\* A cell convert_to_stokes does arithmetic on holds text.
HasTextNumber(t) ==
  \E i \in 1..Len(t.rows), j \in 1..Len(t.cols) :
    /\ ~t.rows[i][j].num
    /\ \/ t.cols[j] \in {"Intensity [%]", "DOP [%]", "PER [dB]", ColPhi}
       \/ (j = 5 /\ ~HasColumn(t, ColPhi))

\* C8: a convert_to_stokes that fails on a missing column or on a value that
\* is no number returns None and publishes nothing: the Stokes table is the
\* one held before the call.
C8_FailedConvertPublishesNothing ==
  [][/\ (call'.op = "convert_to_stokes" /\ data # None
           /\ (~RequiredColumnsPresent(data) \/ HasTextNumber(data)))
          => (call'.ret = None /\ stokes_results' = stokes_results)
     /\ (call'.op = "convert_to_stokes" /\ call'.ret = None)
          => stokes_results' = stokes_results]_vars

\* C8's case: a conversion failed on a table with a usable and an unusable
\* row, while the Stokes table of an earlier conversion is held.
C8_Witness ==
  /\ call.op = "convert_to_stokes"
  /\ call.ret = None
  /\ data # None
  /\ RequiredColumnsPresent(data)
  /\ HasTextNumber(data)
  /\ \E i \in 1..Len(data.rows) : \A j \in 1..Len(data.cols) : data.rows[i][j].num
  /\ stokes_results # None
  /\ Len(stokes_results.rows) > 0

\* Row i of table t as a table of its own.
OnlyRow(t, i) == [cols |-> t.cols, rows |-> <<t.rows[i]>>]

\* C9: a successful convert_to_stokes returns one record per raw row, in row
\* order, record i holding the No, azimuth, PER and intensity of raw row i and
\* the Stokes parameters computed from raw row i alone;
\* get_polarization_properties returns one record per Stokes record, in order.
C9_OneRecordPerRowInOrder ==
  /\ (call.op = "convert_to_stokes" /\ call.ret # None) =>
       /\ Len(call.ret.rows) = Len(data.rows)
       /\ \A i \in 1..Len(data.rows) :
            /\ call.ret.rows[i] = StokesTable(OnlyRow(data, i)).rows[1]
            /\ call.ret.rows[i].No = data.rows[i][ColIndex(data, "No")]
            /\ call.ret.rows[i].Azimuth_original = data.rows[i][AzimuthIndex(data)]
            /\ call.ret.rows[i].PER_original = data.rows[i][ColIndex(data, "PER [dB]")]
            /\ call.ret.rows[i].Intensity_original
                 = data.rows[i][ColIndex(data, "Intensity [%]")]
  /\ (call.op = "get_polarization_properties" /\ call.ret # None) =>
       /\ Len(call.ret.rows) = Len(stokes_results.rows)
       /\ \A i \in 1..Len(stokes_results.rows) :
            /\ call.ret.rows[i].No = stokes_results.rows[i].No
            /\ call.ret.rows[i]
                 = PropertyTable([rows |-> <<stokes_results.rows[i]>>]).rows[1]

\* C9's case: the properties of a Stokes table converted from two different
\* raw rows have been computed.
C9_Witness ==
  /\ call.op = "get_polarization_properties"
  /\ call.ret # None
  /\ data # None
  /\ Len(data.rows) = 2
  /\ data.rows[1] # data.rows[2]
  /\ ~ConvertRaises(data)
  /\ stokes_results = StokesTable(data)

\* Raw row i of t with the cell of column a as its azimuth, laid out as LStd.
AsStandardRow(t, i, a) ==
  [cols |-> LStd,
   rows |-> <<<<t.rows[i][ColIndex(t, "No")], t.rows[i][ColIndex(t, "Intensity [%]")],
                t.rows[i][ColIndex(t, "DOP [%]")], t.rows[i][ColIndex(t, "PER [dB]")],
                t.rows[i][a]>>>>]

\* C10: without a column named φ [°] and with 5 or more columns load_data
\* succeeds and convert_to_stokes takes every azimuth from the 5th column; a
\* column named φ [°] is used wherever it is; with neither, convert_to_stokes
\* returns None.
C10_AzimuthColumn ==
  /\ (call.op = "load_data" /\ ReadCsv(call.file, "utf-8") # Fail) =>
       (call.ret = TRUE /\ data = ReadCsv(call.file, "utf-8"))
  /\ (call.op = "convert_to_stokes" /\ data # None) =>
       /\ (~HasColumn(data, ColPhi) /\ Len(data.cols) < 5) => call.ret = None
       /\ (RequiredColumnsPresent(data) /\ ~HasTextNumber(data)) => call.ret # None
       /\ call.ret # None =>
            \A i \in 1..Len(data.rows) :
              \E a \in 1..Len(data.cols) :
                /\ IF HasColumn(data, ColPhi) THEN data.cols[a] = ColPhi ELSE a = 5
                /\ call.ret.rows[i].Azimuth_original = data.rows[i][a]
                /\ call.ret.rows[i] = StokesTable(AsStandardRow(data, i, a)).rows[1]

\* C10's case: a table without a column named φ [°] has been converted.
C10_Witness ==
  /\ call.op = "convert_to_stokes"
  /\ call.ret # None
  /\ ~HasColumn(data, ColPhi)
  /\ Len(data.rows) > 0

\* ---------------------------------------------------------------- C11
\* The cell of row i of raw table t under the header named name.
RawCell(t, i, name) == t.rows[i][ColIndex(t, name)]

\* A raw row whose extinction ratio is below 0 dB or whose intensity is 0.
Degenerate(t, i) ==
  RawCell(t, i, ColPer).v < 0 \/ RawCell(t, i, ColIntensity).v = 0

\* Table t without its degenerate rows.
WithoutDegenerate(t) ==
  [cols |-> t.cols,
   rows |-> SelectSeq(t.rows, LAMBDA r : ~(r[ColIndex(t, ColPer)].v < 0
                                           \/ r[ColIndex(t, ColIntensity)].v = 0))]

\* The number of rows of t up to row i that are not degenerate.
Rank(t, i) == Cardinality({j \in 1..i : ~Degenerate(t, j)})

NonFinite(rec) ==
  ~(rec.S0.fin /\ rec.S1.fin /\ rec.S2.fin /\ rec.S3.fin /\ rec.DOP_calculated.fin)

\* The test script's engine has just converted the file it loaded.
Converted == call.op = "convert_to_stokes" /\ data # None

\* C11: when some rows of the raw table have an extinction ratio below 0 dB
\* or an intensity of 0, convert_to_stokes still returns a record for every
\* row; the degenerate rows hold a non-finite value, and every other row
\* holds what it holds when the table is converted without the degenerate
\* rows.
C11_DegenerateRowsSoftFail ==
  (Converted /\ \E i \in 1..Len(data.rows) : Degenerate(data, i))
  => /\ call.ret # None
     /\ Len(call.ret.rows) = Len(data.rows)
     /\ stokes_results = call.ret
     /\ \A i \in 1..Len(data.rows) :
          IF Degenerate(data, i) THEN NonFinite(call.ret.rows[i])
          ELSE call.ret.rows[i] = StokesTable(WithoutDegenerate(data)).rows[Rank(data, i)]

C11_Witness ==
  /\ Converted
  /\ call.ret # None
  /\ Len(data.rows) = MaxRows
  /\ \E i, j, k \in 1..Len(data.rows) :
       /\ RawCell(data, i, ColPer).v < 0
       /\ RawCell(data, j, ColIntensity).v = 0
       /\ ~Degenerate(data, k)
       /\ ~NonFinite(call.ret.rows[k])

\* ---------------------------------------------------------------- C17
\* C17: in every Stokes table convert_to_stokes returns, S0 of a row is the
\* row's Intensity [%] divided by 100, whatever its other fields: rows of
\* equal intensity have equal S0.
C17_S0IsIntensity ==
  (Converted /\ call.ret # None)
  => /\ \A i \in 1..Len(data.rows) :
          call.ret.rows[i].S0 = Fin(RawCell(data, i, ColIntensity).v * (Unit \div 100))
     /\ \A i, j \in 1..Len(data.rows) :
          RawCell(data, i, ColIntensity) = RawCell(data, j, ColIntensity)
          => call.ret.rows[i].S0 = call.ret.rows[j].S0

C17_Witness ==
  /\ Converted
  /\ call.ret # None
  /\ \E i, j \in 1..Len(data.rows) :
       /\ RawCell(data, i, ColIntensity) = RawCell(data, j, ColIntensity)
       /\ RawCell(data, i, ColDop) # RawCell(data, j, ColDop)
       /\ RawCell(data, i, ColPhi) # RawCell(data, j, ColPhi)
       /\ RawCell(data, i, ColPer) # RawCell(data, j, ColPer)
       /\ call.ret.rows[i].S0 = call.ret.rows[j].S0

\* ---------------------------------------------------------------- C18
\* The resolution of the round trip in fixed point, 0.05 percent or 0.05
\* degree.
RoundTripTolerance == Unit \div 20

Close(x, v, tol) == x.fin /\ Abs(x.v - v) <= tol

\* A row of positive intensity with PER [dB] > 0 and DOP in (0, 1).
ValidRow(t, i) ==
  /\ RawCell(t, i, ColIntensity).v > 0
  /\ RawCell(t, i, ColPer).v > 0
  /\ RawCell(t, i, ColDop).v > 0
  /\ RawCell(t, i, ColDop).v < 100

\* Row i of the property table p holds the DOP and azimuth of raw row i.
Recovered(t, p, i) ==
  /\ Close(p.rows[i].DOP, RawCell(t, i, ColDop).v * Unit, RoundTripTolerance)
  /\ Close(p.rows[i].Azimuth_calculated, RawCell(t, i, ColPhi).v * Unit, RoundTripTolerance)

\* The test script's engine has just computed the properties of the file
\* it loaded and converted.
RoundTripped ==
  /\ call.op = "get_polarization_properties"
  /\ call.ret # None
  /\ data # None
  /\ Len(call.ret.rows) = Len(data.rows)

NormTolerance == Unit \div 5000

\* sqrt(S1^2 + S2^2 + S3^2) <= S0
NormWithinS0(rec) ==
  LET norm == Norm3(rec.S1, rec.S2, rec.S3)
  IN norm.fin /\ rec.S0.fin /\ norm.v <= rec.S0.v + NormTolerance

\* C19 as stated: in every row of every Stokes table convert_to_stokes
\* produces, sqrt(S1^2 + S2^2 + S3^2) is at most S0.
C19_NormWithinS0 ==
  (Converted /\ call.ret # None)
  => \A i \in 1..Len(call.ret.rows) : NormWithinS0(call.ret.rows[i])

\* C19, amended: sqrt(S1^2 + S2^2 + S3^2) is at most S0 in every row whose
\* raw intensity is not negative, whose DOP [%] is between 0 and 100 and
\* whose PER [dB] is not negative.
C19_NormWithinS0ForPhysicalRows ==
  (Converted /\ call.ret # None)
  => \A i \in 1..Len(call.ret.rows) :
        (/\ RawCell(data, i, ColIntensity).v >= 0
         /\ RawCell(data, i, ColDop).v >= 0
         /\ RawCell(data, i, ColDop).v <= 100
         /\ RawCell(data, i, ColPer).v >= 0)
        => NormWithinS0(call.ret.rows[i])

C19_Witness ==
  /\ Converted
  /\ call.ret # None
  /\ \E i \in 1..Len(call.ret.rows) :
       /\ RawCell(data, i, ColIntensity).v = 100
       /\ RawCell(data, i, ColDop).v = 100
       /\ RawCell(data, i, ColPer).v = 10
       /\ RawCell(data, i, ColPhi).v = -60
       /\ NormWithinS0(call.ret.rows[i])

\* ---------------------------------------------------------------- C12
Saved == call.op = "save_results" /\ call.ret = TRUE

\* The line to_csv writes for Stokes record r and property record p.
LineOf(r, p, include) ==
  LET cells == StokesCells(r) \o (IF include THEN PropertyCells(p) ELSE <<>>)
  IN [j \in 1..Len(cells) |-> FormatCell(cells[j])]

\* C12: the file save_results writes holds exactly one line for each Stokes
\* record, in record order; with include_properties the line is the Stokes
\* record followed by the property record of the same row.
C12_OneLinePerRecord ==
  Saved => /\ Len(call.written.lines) = Len(stokes_results.rows)
           /\ \A i \in 1..Len(stokes_results.rows) :
                call.written.lines[i] =
                  LineOf(stokes_results.rows[i], PropertyTable(stokes_results).rows[i],
                         call.include)

\* ---------------------------------------------------------------- C13
\* A step that is a call of get_polarization_properties.
PropertiesCalled == call' # call /\ call'.op = "get_polarization_properties"

\* C13: get_polarization_properties called on an instance that holds no
\* Stokes table returns None and leaves the raw table and the Stokes table
\* as they were.
C13_NoStokesNoProperties ==
  [][(PropertiesCalled /\ stokes_results = None)
     => (call'.ret = None /\ data' = data /\ stokes_results' = None)]_vars

C13_Witness ==
  /\ call.op = "get_polarization_properties"
  /\ call.ret = None
  /\ stokes_results = None
  /\ data # None

\* ---------------------------------------------------------------- C14
Queries == {"get_polarization_properties", "save_results", "print_summary"}

\* C14: get_polarization_properties, save_results and print_summary leave
\* the raw table and the Stokes table as they were; the property table
\* returned is that of the Stokes table the instance holds at the call, so
\* that two calls in a row return equal tables.
C14_QueriesKeepTables ==
  [][(call' # call /\ call'.op \in Queries)
     => /\ data' = data
        /\ stokes_results' = stokes_results
        /\ call'.op = "get_polarization_properties"
           => call'.ret = PropertiesResult(stokes_results')
        /\ (call.op = "get_polarization_properties"
            /\ call'.op = "get_polarization_properties")
           => call'.ret = call.ret]_vars

C14_Witness ==
  /\ call.op = "get_polarization_properties"
  /\ call.ret # None
  /\ Len(call.ret.rows) = MaxRows
  /\ data # None
  /\ Len(data.rows) < MaxRows

\* ---------------------------------------------------------------- C20
\* A generic CSV reader on the written file: it skips the byte-order mark,
\* takes the header for the column names, the empty field for NaN, and every
\* other field for the value its text denotes.
ParseCell(c) ==
  CASE c.text = "float" -> Fin(c.v)
    [] c.text = "" -> NaN
    [] c.text = "number" -> Num(c.v)
    [] c.text = "string" -> Str

ReadBack(f) ==
  [cols |-> f.header,
   rows |-> [i \in 1..Len(f.lines) |->
               [j \in 1..Len(f.lines[i]) |-> ParseCell(f.lines[i][j])]]]

\* The Stokes table s as columns and rows of cells.
AsTable(s) ==
  [cols |-> StokesColumns,
   rows |-> [i \in 1..Len(s.rows) |-> StokesCells(s.rows[i])]]

Running == {w \in 1..Len(workers) : workers[w].pc # "done"}

\* C15: at most one DataProcessor is running on the window's engine at any
\* time.
C15_OneWorkerAtATime == Cardinality(Running) <= 1

\* ---------------------------------------------------------------- C16
\* The fields of an engine after the calls cs, made on it alone.
RECURSIVE RunAlone(_)
RunAlone(cs) ==
  IF cs = <<>> THEN StokesParameters
  ELSE LET before == RunAlone(SubSeq(cs, 1, Len(cs) - 1))
           c == cs[Len(cs)]
       IN CASE c.op = "load_data" ->
                 [before EXCEPT !.data = IF LoadResult(c.file).found
                                         THEN LoadResult(c.file).table ELSE @]
            [] c.op = "convert_to_stokes" ->
                 [before EXCEPT !.stokes_results =
                                   IF ConvertResult(before.data).ret = None
                                   THEN @ ELSE ConvertResult(before.data).ret]
            [] c.op = "save_results" -> before

\* C16: however the calls on two engines interleave, each engine holds the
\* raw table and the Stokes table it holds after its own calls made alone.
C16_InstancesIndependent == \A k \in Instances : insts[k] = RunAlone(ops[k])

C16_Witness ==
  /\ \A k \in Instances : Len(ops[k]) = MaxOps /\ insts[k].stokes_results # None
  /\ insts["A"].data # insts["B"].data
  /\ insts["A"].stokes_results # insts["B"].stokes_results
  /\ C16_InstancesIndependent

\* ---------------------------------------------------------------- C21
\* C21: whenever the instance holds a Stokes table, print_summary completes
\* without raising, and the DOP deviation it reports compares each record
\* of the Stokes table with the row of the raw table it was computed from.
C21_SummaryCompletes ==
  (call.op = "print_summary" /\ stokes_results # None)
  => /\ ~call.raised
     /\ stokes_results = ConvertResult(data).ret
     /\ Len(call.written.dop_diff) = Len(stokes_results.rows)

\* ---------------------------------------------------------------- C22
\* A step that is a call of convert_to_stokes that returned a table.
ConvertSucceeded ==
  call' # call /\ call'.op = "convert_to_stokes" /\ call'.ret # None

\* C22 as stated: after a successful convert_to_stokes the instance holds
\* no raw table.
C22_RawDiscarded ==
  (call.op = "convert_to_stokes" /\ call.ret # None) => data = None

\* C22, amended: a successful convert_to_stokes keeps the raw table it
\* converted: the instance holds it, unchanged, after the call.
C22_RawKept ==
  [][ConvertSucceeded => (data' = data /\ data' # None)]_vars

C22_Witness ==
  /\ call.op = "convert_to_stokes"
  /\ call.ret # None
  /\ data # None
  /\ Len(data.rows) = MaxRows
  /\ stokes_results = call.ret

\* ---------------------------------------------------------------- C24
\* C24: save_results called on an instance that holds no Stokes table
\* returns False, writes nothing and leaves the raw table and the Stokes
\* table as they were.
C24_NothingToSave ==
  [][(call' # call /\ call'.op = "save_results" /\ stokes_results = None)
     => /\ call'.ret = FALSE
        /\ call'.written = None
        /\ call'.log = <<"nothing to save">>
        /\ data' = data
        /\ stokes_results' = None]_vars

C24_Witness ==
  /\ call.op = "save_results"
  /\ call.file.writable
  /\ call.ret = FALSE
  /\ call.written = None
  /\ stokes_results = None
  /\ data # None

\* Worker w calls _is_encoding_error in this step.
Classifies(w) ==
  /\ Len(workers'[w].trace) = Len(workers[w].trace) + 1
  /\ workers'[w].trace[Len(workers'[w].trace)].call = "_is_encoding_error"

Calls(w, name) ==
  {k \in 1..Len(workers[w].trace) : workers[w].trace[k].call = name}

\* C23: a worker calls _is_encoding_error only when load_data has returned
\* False and nothing else was called; the call leaves the raw table and
\* the Stokes table of the engine as they were; with it the worker ends,
\* reporting a failure whose message the classifier chose, and a worker
\* that called it never calls convert_to_stokes.
C23_ClassifierOnlySelectsMessage ==
  [][\A w \in 1..Len(workers) :
       Classifies(w) =>
         /\ workers[w].trace = <<Returned("load_data", FALSE)>>
         /\ data' = data
         /\ stokes_results' = stokes_results
         /\ workers'[w].pc = "done"
         /\ LET e == workers'[w].emitted
                c == workers'[w].trace[Len(workers'[w].trace)].ret
            IN /\ e[Len(e)].signal = "finished"
               /\ ~e[Len(e)].success
               /\ e[Len(e)].message = IF c THEN "encoding problem" ELSE "load failed"
         /\ \A k \in 1..Len(workers'[w].trace) :
              workers'[w].trace[k].call # "convert_to_stokes"]_vars

\* A worker has classified a failed load while the engine holds the tables
\* of an earlier file.
C23_Witness ==
  /\ data # None
  /\ stokes_results # None
  /\ \E w \in 1..Len(workers) :
       /\ workers[w].pc = "done"
       /\ Calls(w, "_is_encoding_error") = {2}
       /\ Calls(w, "convert_to_stokes") = {}

FinishedAt(w) ==
  {k \in 1..Len(workers[w].emitted) : workers[w].emitted[k].signal = "finished"}

RunShape(w) ==
  LET e == workers[w].emitted
      t == workers[w].trace
  IN /\ Cardinality(FinishedAt(w)) <= 1
     /\ workers[w].pc = "done" => FinishedAt(w) = {Len(e)}
     /\ workers[w].pc # "done" => FinishedAt(w) = {}
     /\ \A k \in Calls(w, "convert_to_stokes") :
          k = 2 /\ t[1] = Returned("load_data", TRUE)
     /\ \A k \in FinishedAt(w) :
          e[k].success =>
            SubSeq(e, 1, k - 1) = <<progress(25), progress(50), progress(100)>>
     /\ (/\ workers[w].pc = "done"
         /\ \E k \in 1..Len(t) : t[k].call # "_is_encoding_error" /\ ~t[k].ret)
        => ~e[Len(e)].success

Started(w) == Len(workers) >= w

Done(w) == Len(workers) >= w /\ workers[w].pc = "done"

\* C25: every worker that was started ends, and has then emitted finished
\* exactly once, as its last signal, and not before; it calls
\* convert_to_stokes only as its second call after load_data returned True;
\* finished(True, ..) follows progress 25, 50 and 100 in this order, and the
\* finished signal of a worker whose load_data returned False or whose
\* convert_to_stokes returned None is finished(False, ..).
C25_FinishedOnce ==
  /\ [](\A w \in 1..Len(workers) : RunShape(w))
  /\ \A w \in 1..MaxWorkers : Started(w) ~> Done(w)

\* One worker has succeeded and another has failed in its conversion.
C25_Witness ==
  /\ \E w \in 1..Len(workers) :
       /\ Done(w)
       /\ Len(workers[w].emitted) = 4
       /\ workers[w].emitted[4].success
  /\ \E w \in 1..Len(workers) :
       /\ Done(w)
       /\ Calls(w, "convert_to_stokes") = {2}
       /\ ~workers[w].emitted[Len(workers[w].emitted)].success

\* The main thread runs on_data_processed in this step.
Delivers == events # <<>> /\ events' = Tail(events)

\* The Stokes table of file f.
TableOf(f) == ConvertResult(LoadResult(f).table).ret

\* C26: when finished(True, N) of the worker started for file F is
\* delivered, the engine holds the Stokes table computed from F, it has N
\* rows, and it is the table on_data_processed plots.
C26_DeliveredTableIsOfTheFile ==
  [][(Delivers /\ Head(events).success) =>
       /\ stokes_results = TableOf(workers[Head(events).worker].file_path)
       /\ Len(stokes_results.rows) = Head(events).message
       /\ plot_widget'.current_data = stokes_results]_vars

\* The window plots, and exports, in this step.
Plots == plot_widget' # plot_widget /\ plot_widget'.last = "update_plot"

Exports == call' # call /\ call'.op = "save_results" /\ call'.ret = TRUE

\* C27: the table the window plots or exports is the Stokes table of the
\* file current_file_path names.
C27_ShownDataIsOfCurrentFile ==
  [][/\ Plots => plot_widget'.current_data = TableOf(current_file_path)
     /\ Exports => stokes_results = TableOf(current_file_path)]_vars

\* C28: the imported file list holds no path twice.
C28_NoPathTwice ==
  \A i, j \in 1..Len(imported_files) :
     i # j => imported_files[i] # imported_files[j]

\* C29: on return from an update of the plot to animation mode with data,
\* no animation is referred to or left running, animation_index is 0 and
\* the play button reads "play".
C29_AnimationModeEntersStopped ==
  (/\ plot_widget.last = "update_plot"
   /\ plot_widget.current_mode = "animation"
   /\ plot_widget.current_data # None
   /\ Len(plot_widget.current_data.rows) > 0)
  => /\ plot_widget.animation = None
     /\ plot_widget.orphans = {}
     /\ plot_widget.animation_index = 0
     /\ plot_widget.play_button = "play"

\* C30: when the timer of the animation has delivered the last frame and
\* found the frames exhausted, the animation is stopped and the play button
\* reads "play".
C30_EndedAnimationShowsPlay ==
  (/\ plot_widget.last = "animate"
   /\ plot_widget.animation # None
   /\ plot_widget.animation.next = plot_widget.animation.frames
   /\ plot_widget.animation.event_source # "running")
  => plot_widget.play_button = "play"

====
